---- MODULE Spec2Model ----
(***************************************************************************)
(* State-machine model of the TLS 1.3 hybrid benchmark harness             *)
(* (src/src/tls_benchmark/measure_tls.py): main, TLSBenchmark.run_benchmark *)
(* with its two sampling loops, TLSBenchmark.measure_latency around         *)
(* subprocess.run, and TLSBenchmark.analyze_results.                        *)
(*                                                                         *)
(* Python's None is the empty sequence and a present value x is <<x>>.     *)
(* Clock readings are whole seconds; latencies are milliseconds.  A value  *)
(* rounded to two decimals is held as an integer number of hundredths.     *)
(***************************************************************************)
EXTENDS Integers, Sequences, FiniteSets, TLC

\* Largest value of the --iterations argument explored.
MaxIterations == 3

\* Largest reading of time.perf_counter() explored, in seconds.
MaxClock == 1

VARIABLES
    pc,                \* position of main / run_benchmark
    iterations,        \* the iterations argument of run_benchmark
    i,                 \* iterations of the current for loop already finished
    proc,              \* the child process of the call in flight
    start_time,        \* measure_latency's start_time while a call is in flight
    classic_latencies, \* run_benchmark's list classic_latencies
    hybrid_latencies,  \* run_benchmark's list hybrid_latencies
    calls,             \* per group: calls of measure_latency made so far
    failed,            \* per group: calls of measure_latency that returned None
    attempt,           \* how the latest call of measure_latency ended
    cooled,            \* time.sleep(2) between the passes has returned
    df,                \* the DataFrame run_benchmark returned, or None
    analysis,          \* the summary analyze_results returned, or None
    exc,               \* the exception that ended the run, or None
    exit_code,         \* main's return value, or None
    report,            \* the interpretation banner of the written report, or None
    scores,            \* calculate_cari's input table: one row of brake scores per category
    cari_df            \* the CARI column calculate_cari returned, or None

vars == <<pc, iterations, i, proc, start_time, classic_latencies,
          hybrid_latencies, calls, failed, attempt, cooled, df, analysis,
          exc, exit_code, report, scores, cari_df>>

\* The state of the CARI calculator, which the benchmark never touches.
cariVars == <<scores, cari_df>>

None == <<>>

Some(x) == <<x>>

Classic == "X25519"

Hybrid == "X25519MLKEM768"

Groups == {Classic, Hybrid}

Min(a, b) == IF a <= b THEN a ELSE b

RECURSIVE Sum(_)
Sum(s) == IF s = <<>> THEN 0 ELSE Head(s) + Sum(Tail(s))

\* p / q (q # 0) rounded to the nearest integer, ties to the even one.
RoundHalfEven(p, q) ==
    LET pp == IF q < 0 THEN 0 - p ELSE p
        qq == IF q < 0 THEN 0 - q ELSE q
        f  == pp \div qq
        r  == pp % qq
    IN  IF 2 * r < qq THEN f
        ELSE IF 2 * r > qq THEN f + 1
        ELSE IF f % 2 = 0 THEN f ELSE f + 1

-----------------------------------------------------------------------------
(* measure_latency *)

\* latency_ms = (end_time - start_time) * 1000
LatencyMs(start, end) == (end - start) * 1000

GuardRemoved(latency_ms) == Some(latency_ms)

\* return latency_ms if latency_ms >= 0 else None
Guard(latency_ms) == IF latency_ms >= 0 THEN Some(latency_ms) ELSE None

\* measure_latency's default timeout of 5 seconds, in milliseconds.
TimeoutMs == 5000

ExceptReturnsTimeout == Some(TimeoutMs)

\* except (CalledProcessError, TimeoutExpired): ... return None
ExceptReturn == None

\* The exception types the except clause of measure_latency catches.
Caught == {"CalledProcessError", "TimeoutExpired"}

NoAttempt ==
    [group |-> "", outcome |-> "none", child |-> "none",
     elapsed |-> None, ret |-> None, raised |-> FALSE]

-----------------------------------------------------------------------------
(* run_benchmark *)

KeepTruthy(latency) == latency # None /\ latency[1] # 0

\* if latency is not None: ...append(latency)
Keep(latency) == latency # None

MinLenOfClassic(c, h) == Len(c)

SliceTail(s, n) == SubSeq(s, Len(s) - Min(n, Len(s)) + 1, Len(s))

\* Python's s[:n] for n >= 0.
Slice(s, n) == SubSeq(s, 1, Min(n, Len(s)))

\* min_len = min(len(classic_latencies), len(hybrid_latencies))
MinLen(c, h) == Min(Len(c), Len(h))

GroupAt(p) == IF p = "classic_loop" THEN Classic ELSE Hybrid

Latencies(g) == IF g = Classic THEN classic_latencies ELSE hybrid_latencies

AfterClassicNoSleep == "hybrid_loop"

\* The statement that follows the classic loop: time.sleep(2).
AfterClassic == "sleep"

AfterLoop(p) == IF p = "classic_loop" THEN AfterClassic ELSE "build_df"

\* raise RuntimeError("Aucune mesure valide obtenue")
NoValidMeasure ==
    [type |-> "RuntimeError", msg |-> "Aucune mesure valide obtenue",
     counts |-> None, where |-> "build_df"]

\* What subprocess.run raises when the client cannot be started.
SpawnError(p) ==
    [type |-> "OSError", msg |-> "openssl", counts |-> None, where |-> p]

-----------------------------------------------------------------------------
(* analyze_results *)

Finite(x) == [kind |-> "finite", val |-> x]

\* numpy float64 division by zero: x / 0 is nan for x = 0, else +-inf.
DivByZero(x) ==
    IF x = 0 THEN [kind |-> "nan", val |-> 0]
    ELSE IF x > 0 THEN [kind |-> "inf", val |-> 0]
    ELSE [kind |-> "-inf", val |-> 0]

\* round(df[col].mean(), 2), in hundredths.
MeanRounded(s) == RoundHalfEven(100 * Sum(s), Len(s))

DeltaOverHybrid(c, h) ==
    IF Sum(h) = 0 THEN DivByZero(Sum(h) - Sum(c))
    ELSE Finite(RoundHalfEven(10000 * (Sum(h) - Sum(c)), Sum(h)))

\* round(100 * (mean_hybrid - mean_classic) / mean_classic, 2), in hundredths.
\* Both columns of the frame have the same length, so the means' common
\* denominator cancels.
DeltaPercent(c, h) ==
    IF Sum(c) = 0 THEN DivByZero(Sum(h) - Sum(c))
    ELSE Finite(RoundHalfEven(10000 * (Sum(h) - Sum(c)), Sum(c)))

analyze_results(d) ==
    [classic_mean_ms |-> MeanRounded(d.classic_ms),
     hybrid_mean_ms  |-> MeanRounded(d.hybrid_ms),
     delta_percent   |-> DeltaPercent(d.classic_ms, d.hybrid_ms),
     sample_size     |-> Len(d.classic_ms)]

-----------------------------------------------------------------------------
(* _generate_markdown_report *)

\* abs(delta) < 5, a comparison that is False when delta is nan.
AbsBelow5(delta) ==
    delta.kind = "finite" /\ delta.val < 500 /\ delta.val > 0 - 500

\* delta > 0, a comparison that is False when delta is nan.
Positive(delta) ==
    \/ delta.kind = "inf"
    \/ delta.kind = "finite" /\ delta.val > 0

\* if abs(delta) < 5: ... elif delta > 0: ... else: ...
Banner(delta) ==
    IF AbsBelow5(delta) THEN "no_significant_impact"
    ELSE IF Positive(delta) THEN "degradation"
    ELSE "improvement"

-----------------------------------------------------------------------------

Init ==
    /\ pc = "classic_loop"
    /\ iterations \in 0..MaxIterations
    /\ i = 0
    /\ proc = "none"
    /\ start_time = None
    /\ classic_latencies = <<>>
    /\ hybrid_latencies = <<>>
    /\ calls = [g \in Groups |-> 0]
    /\ failed = [g \in Groups |-> 0]
    /\ attempt = NoAttempt
    /\ cooled = FALSE
    /\ df = None
    /\ analysis = None
    /\ exc = None
    /\ exit_code = None
    /\ report = None
    /\ scores = <<>>
    /\ cari_df = None

InLoop == pc \in {"classic_loop", "hybrid_loop"}

\* The loop body's handling of the value measure_latency returned.
Record(g, latency) ==
    /\ classic_latencies' =
          IF g = Classic /\ Keep(latency)
          THEN Append(classic_latencies, latency[1]) ELSE classic_latencies
    /\ hybrid_latencies' =
          IF g = Hybrid /\ Keep(latency)
          THEN Append(hybrid_latencies, latency[1]) ELSE hybrid_latencies
    /\ failed' = [failed EXCEPT ![g] = IF latency = None THEN @ + 1 ELSE @]
    /\ i' = i + 1

\* The loop calls measure_latency; it reads the clock and subprocess.run
\* starts the client.
Spawn ==
    /\ InLoop /\ i < iterations /\ proc = "none"
    /\ calls' = [calls EXCEPT ![GroupAt(pc)] = @ + 1]
    /\ \E t \in 0..MaxClock :
          /\ start_time' = Some(t)
          /\ proc' = "running"
    /\ UNCHANGED <<pc, iterations, i, classic_latencies, hybrid_latencies,
                   failed, attempt, cooled, df, analysis, exc, exit_code>>
    /\ UNCHANGED <<report, cariVars>>

\* subprocess.run cannot start the client: the OSError is not among Caught,
\* leaves measure_latency and run_benchmark, and main's except Exception
\* logs it and returns 1.
SpawnFails ==
    /\ InLoop /\ i < iterations /\ proc = "none"
    /\ calls' = [calls EXCEPT ![GroupAt(pc)] = @ + 1]
    /\ attempt' = [group |-> GroupAt(pc), outcome |-> "spawn_failure",
                   child |-> "none", elapsed |-> None, ret |-> ExceptReturn,
                   raised |-> ~("OSError" \in Caught)]
    /\ IF "OSError" \in Caught
       THEN /\ Record(GroupAt(pc), ExceptReturn)
            /\ UNCHANGED <<pc, exc, exit_code>>
       ELSE /\ exc' = Some(SpawnError(pc))
            /\ pc' = "exit"
            /\ exit_code' = Some(1)
            /\ UNCHANGED <<i, classic_latencies, hybrid_latencies, failed>>
    /\ UNCHANGED <<iterations, proc, start_time, cooled, df, analysis>>
    /\ UNCHANGED <<report, cariVars>>

\* The client exits with status rc before the timeout; check=True turns a
\* non-zero status into CalledProcessError.
Complete ==
    /\ InLoop /\ proc = "running"
    /\ \E rc \in {0, 1}, t \in 0..MaxClock :
          LET g == GroupAt(pc)
              ms == LatencyMs(start_time[1], t)
              ret == IF rc = 0 THEN Guard(ms) ELSE ExceptReturn
          IN  /\ attempt' = [group |-> g,
                             outcome |-> IF rc = 0 THEN "exit0" ELSE "exit_nonzero",
                             child |-> "reaped",
                             elapsed |-> IF rc = 0 THEN Some(ms) ELSE None,
                             ret |-> ret, raised |-> FALSE]
              /\ Record(g, ret)
    /\ proc' = "none"
    /\ start_time' = None
    /\ UNCHANGED <<pc, iterations, calls, cooled, df, analysis, exc, exit_code>>
    /\ UNCHANGED <<report, cariVars>>

\* The timeout passes first: subprocess.run kills the child, waits for it
\* and raises TimeoutExpired, which measure_latency catches.
Timeout ==
    /\ InLoop /\ proc = "running"
    /\ attempt' = [group |-> GroupAt(pc), outcome |-> "timeout",
                   child |-> "killed", elapsed |-> None,
                   ret |-> ExceptReturn, raised |-> FALSE]
    /\ Record(GroupAt(pc), ExceptReturn)
    /\ proc' = "none"
    /\ start_time' = None
    /\ UNCHANGED <<pc, iterations, calls, cooled, df, analysis, exc, exit_code>>
    /\ UNCHANGED <<report, cariVars>>

\* range(iterations) is exhausted.
LoopExit ==
    /\ InLoop /\ i >= iterations /\ proc = "none"
    /\ pc' = AfterLoop(pc)
    /\ i' = 0
    /\ UNCHANGED <<iterations, proc, start_time, classic_latencies,
                   hybrid_latencies, calls, failed, attempt, cooled, df,
                   analysis, exc, exit_code>>
    /\ UNCHANGED <<report, cariVars>>

\* time.sleep(2)
Cooldown ==
    /\ pc = "sleep"
    /\ cooled' = TRUE
    /\ pc' = "hybrid_loop"
    /\ UNCHANGED <<iterations, i, proc, start_time, classic_latencies,
                   hybrid_latencies, calls, failed, attempt, df, analysis,
                   exc, exit_code>>
    /\ UNCHANGED <<report, cariVars>>

\* min_len is 0: run_benchmark raises, main logs the error and returns 1.
BuildFrameFails ==
    /\ pc = "build_df"
    /\ MinLen(classic_latencies, hybrid_latencies) = 0
    /\ exc' = Some(NoValidMeasure)
    /\ pc' = "exit"
    /\ exit_code' = Some(1)
    /\ UNCHANGED <<iterations, i, proc, start_time, classic_latencies,
                   hybrid_latencies, calls, failed, attempt, cooled, df,
                   analysis>>
    /\ UNCHANGED <<report, cariVars>>

\* run_benchmark builds the DataFrame of truncated columns and returns it.
BuildFrame ==
    /\ pc = "build_df"
    /\ LET min_len == MinLen(classic_latencies, hybrid_latencies)
       IN  /\ min_len # 0
           /\ df' = Some([classic_ms |-> Slice(classic_latencies, min_len),
                          hybrid_ms  |-> Slice(hybrid_latencies, min_len)])
    /\ pc' = "analyze"
    /\ UNCHANGED <<iterations, i, proc, start_time, classic_latencies,
                   hybrid_latencies, calls, failed, attempt, cooled, analysis,
                   exc, exit_code>>
    /\ UNCHANGED <<report, cariVars>>

\* analysis = benchmark.analyze_results(df)
Analyze ==
    /\ pc = "analyze"
    /\ analysis' = Some(analyze_results(df[1]))
    /\ pc' = "report"
    /\ UNCHANGED <<iterations, i, proc, start_time, classic_latencies,
                   hybrid_latencies, calls, failed, attempt, cooled, df, exc,
                   exit_code>>
    /\ UNCHANGED <<report, cariVars>>

\* save_results, whose last step writes the report with its banner, and the
\* printed summary; main returns 0.
Report ==
    /\ pc = "report"
    /\ report' = Some(Banner(analysis[1].delta_percent))
    /\ pc' = "exit"
    /\ exit_code' = Some(0)
    /\ UNCHANGED <<iterations, i, proc, start_time, classic_latencies,
                   hybrid_latencies, calls, failed, attempt, cooled, df,
                   analysis, exc>>
    /\ UNCHANGED cariVars

Next ==
    \/ Spawn
    \/ SpawnFails
    \/ Complete
    \/ Timeout
    \/ LoopExit
    \/ Cooldown
    \/ BuildFrameFails
    \/ BuildFrame
    \/ Analyze
    \/ Report

Spec == Init /\ [][Next]_vars

-----------------------------------------------------------------------------
(* analyze_results applied to a given frame *)

\* Longest column of a frame handed to analyze_results.
MaxSamples == 3

LowLatencies == {10, 11, 12}

HighLatencies == {14, 15, 16}

\* Frames of two columns of the same length, as pandas requires.
Frames ==
    UNION { { [classic_ms |-> c, hybrid_ms |-> h] :
                c \in [1..n -> pair[1]], h \in [1..n -> pair[2]] } :
            n \in 1..MaxSamples,
            pair \in { <<LowLatencies, HighLatencies>>,
                       <<HighLatencies, LowLatencies>>,
                       <<LowLatencies, LowLatencies>> } }

InitAnalyze ==
    /\ pc = "analyze"
    /\ df \in { Some(d) : d \in Frames }
    /\ iterations = 0
    /\ i = 0
    /\ proc = "none"
    /\ start_time = None
    /\ classic_latencies = <<>>
    /\ hybrid_latencies = <<>>
    /\ calls = [g \in Groups |-> 0]
    /\ failed = [g \in Groups |-> 0]
    /\ attempt = NoAttempt
    /\ cooled = FALSE
    /\ analysis = None
    /\ exc = None
    /\ exit_code = None
    /\ report = None
    /\ scores = <<>>
    /\ cari_df = None

NextAnalyze ==
    \/ Analyze
    \/ Report

SpecAnalyze == InitAnalyze /\ [][NextAnalyze]_vars

-----------------------------------------------------------------------------
(* CARICalculator.calculate_cari (src/src/cari_analysis/compute_cari.py) *)

\* Most categories (rows) of an input table.
MaxCategories == 2

WEIGHTS ==
    [manque_normes |-> 12, hybridation_non_standard |-> 10,
     lib_reference |-> 10, referentiels |-> 8, equipement_HW |-> 8,
     perf_signature |-> 5, plan_transition |-> 15, certif_biblio |-> 12,
     manque_sensi |-> 10, cost_skills |-> 10]

\* Brake scores: 1 to 5, 5 being the strongest brake.
BrakeScores == 1..5

\* The column sets of the tables explored; "inconnu" has no weight.
ColumnSets ==
    { {"perf_signature", "plan_transition"}, {"manque_normes"}, {"inconnu"} }

Tables ==
    UNION { [1..n -> [cols -> BrakeScores]] :
            n \in 1..MaxCategories, cols \in ColumnSets }

Columns(t) == DOMAIN t[1]

RECURSIVE SumOver(_, _, _)
SumOver(cols, w, f) ==
    IF cols = {} THEN 0
    ELSE LET col == CHOOSE x \in cols : TRUE
         IN  w[col] * f[col] + SumOver(cols \ {col}, w, f)

RawNotInverted(row) == SumOver(DOMAIN row, WEIGHTS, row)

\* (weights * (5 - df)).sum(axis=1), for one row.
RawScore(row) ==
    SumOver(DOMAIN row, WEIGHTS, [col \in DOMAIN row |-> 5 - row[col]])

Max(S) == CHOOSE x \in S : \A y \in S : y <= x

\* The raw score of a row whose brake scores are all 1.
TheoreticalMax(t) ==
    SumOver(Columns(t), WEIGHTS, [col \in Columns(t) |-> 4])

\* max_possible = raw_scores.max()
MaxPossible(t) == Max({ RawScore(t[k]) : k \in DOMAIN t })

\* (100 * raw_scores / max_possible).round(1), in tenths.
CariScore(raw, max_possible) ==
    IF max_possible = 0 THEN DivByZero(100 * raw)
    ELSE Finite(RoundHalfEven(1000 * raw, max_possible))

calculate_cari(t) ==
    [k \in DOMAIN t |-> CariScore(RawScore(t[k]), MaxPossible(t))]

\* missing_weights = set(df.columns) - set(weights.index)
MissingWeights(t) == Columns(t) \ DOMAIN WEIGHTS

InitCari ==
    /\ pc = "calculate_cari"
    /\ scores \in Tables
    /\ cari_df = None
    /\ iterations = 0
    /\ i = 0
    /\ proc = "none"
    /\ start_time = None
    /\ classic_latencies = <<>>
    /\ hybrid_latencies = <<>>
    /\ calls = [g \in Groups |-> 0]
    /\ failed = [g \in Groups |-> 0]
    /\ attempt = NoAttempt
    /\ cooled = FALSE
    /\ df = None
    /\ analysis = None
    /\ exc = None
    /\ exit_code = None
    /\ report = None

benchVars ==
    <<iterations, i, proc, start_time, classic_latencies, hybrid_latencies,
      calls, failed, attempt, cooled, df, analysis, exit_code, report>>

\* A column has no weight: raise ValueError.
CalculateCariFails ==
    /\ pc = "calculate_cari"
    /\ MissingWeights(scores) # {}
    /\ exc' = Some([type |-> "ValueError", msg |-> "Poids manquants",
                    counts |-> None, where |-> pc])
    /\ pc' = "cari_raised"
    /\ UNCHANGED <<scores, cari_df, benchVars>>

\* calculate_cari returns the CARI column.
CalculateCari ==
    /\ pc = "calculate_cari"
    /\ MissingWeights(scores) = {}
    /\ cari_df' = Some(calculate_cari(scores))
    /\ pc' = "cari_done"
    /\ UNCHANGED <<scores, exc, benchVars>>

NextCari ==
    \/ CalculateCariFails
    \/ CalculateCari

SpecCari == InitCari /\ [][NextCari]_vars

-----------------------------------------------------------------------------
(* The run under an external interrupt (SIGINT) *)

ChildLeftRunning == "running"

\* The child once subprocess.run is left by an exception other than
\* TimeoutExpired: run kills it and the Popen context manager waits for it.
ChildAfterRunRaises == "none"

\* KeyboardInterrupt is raised in the main thread.  It is not among Caught
\* and main's except Exception does not catch it, so it leaves main.
Interrupt ==
    /\ pc # "exit"
    /\ IF proc = "running"
       THEN /\ proc' = ChildAfterRunRaises
            /\ attempt' = [group |-> GroupAt(pc), outcome |-> "interrupted",
                           child |-> IF ChildAfterRunRaises = "none"
                                     THEN "killed" ELSE "running",
                           elapsed |-> None, ret |-> None,
                           raised |-> ~("KeyboardInterrupt" \in Caught)]
       ELSE UNCHANGED <<proc, attempt>>
    /\ start_time' = None
    /\ exc' = Some([type |-> "KeyboardInterrupt", msg |-> "",
                    counts |-> None, where |-> pc])
    /\ pc' = "exit"
    /\ UNCHANGED <<iterations, i, classic_latencies, hybrid_latencies, calls,
                   failed, cooled, df, analysis, exit_code, report, cariVars>>

NextCancel ==
    \/ Next
    \/ Interrupt

SpecCancel == Init /\ [][NextCancel]_vars

-----------------------------------------------------------------------------
(* Properties *)

\* The for loop of group g ran to its end (no exception left it).
PassEnded(g) ==
    \/ pc \in {"build_df", "analyze", "report"}
    \/ g = Classic /\ pc \in {"sleep", "hybrid_loop"}
    \/ pc = "exit" /\ exc = None
    \/ pc = "exit" /\ exc # None /\ exc[1].where = "build_df"
    \/ pc = "exit" /\ exc # None /\ g = Classic /\ exc[1].where = "hybrid_loop"

NonNegative(s) == \A k \in DOMAIN s : s[k] >= 0

\* C1: at the end of each pass, the number of measure_latency calls made in
\* the pass equals the number of latencies collected plus the number of
\* calls that returned None.
C1_AttemptedIsKeptPlusFailed ==
    \A g \in Groups :
        PassEnded(g) => calls[g] = Len(Latencies(g)) + failed[g]

\* A baseline pass of three attempts ended with two failures and one latency.
C1_Witness ==
    /\ PassEnded(Classic)
    /\ calls[Classic] = 3
    /\ failed[Classic] = 2
    /\ Len(classic_latencies) = 1

\* C2: a returned frame has two columns of the same length, that length is
\* the minimum of the two passes' successful counts and is at least 1; when
\* the minimum is 0 the run fails and no frame is returned.
C2_PairedTruncation ==
    LET m == Min(Len(classic_latencies), Len(hybrid_latencies))
    IN  /\ df # None =>
              /\ Len(df[1].classic_ms) = Len(df[1].hybrid_ms)
              /\ Len(df[1].classic_ms) = m
              /\ m >= 1
        /\ (PassEnded(Hybrid) /\ pc # "build_df" /\ m = 0) =>
              /\ df = None
              /\ exit_code = Some(1)
              /\ exc # None /\ exc[1].type = "RuntimeError"
        /\ (PassEnded(Hybrid) /\ pc # "build_df" /\ m # 0) => df # None

\* A frame was returned after passes with different successful counts.
C2_Witness ==
    /\ df # None
    /\ Len(classic_latencies) = 3
    /\ Len(hybrid_latencies) = 1

\* C3: after a baseline pass in which every attempt failed, no hybrid
\* attempt is made.
C3_AllFailedPassAbortsRun ==
    (PassEnded(Classic) /\ failed[Classic] > 0 /\ classic_latencies = <<>>)
        => calls[Hybrid] = 0

\* C4: when the baseline mean of the frame is exactly 0, analyze_results
\* returns no analysis (it fails instead of computing a delta).
C4_DegenerateBaselineFails ==
    (df # None /\ Sum(df[1].classic_ms) = 0) => analysis = None

\* C5: a hybrid attempt starts only after all baseline attempts have
\* returned and the cooldown has completed; the cooldown happens only after
\* the baseline pass; no baseline attempt starts once the cooldown or a
\* hybrid attempt has happened.
C5_PassOrder ==
    [][ /\ calls'[Hybrid] > calls[Hybrid] =>
              /\ calls[Classic] = iterations
              /\ calls[Classic] = Len(classic_latencies) + failed[Classic]
              /\ proc = "none"
              /\ cooled
        /\ (cooled' /\ ~cooled) =>
              /\ calls[Classic] = iterations
              /\ proc = "none"
              /\ calls[Hybrid] = 0
        /\ calls'[Classic] > calls[Classic] =>
              /\ ~cooled
              /\ calls[Hybrid] = 0 ]_vars

\* A hybrid attempt is in flight after a full baseline pass and the cooldown.
C5_Witness ==
    /\ pc = "hybrid_loop"
    /\ proc = "running"
    /\ cooled
    /\ calls[Classic] = 3

\* C6: once the run is over, each pass has made exactly `iterations` calls
\* of measure_latency: no failed attempt aborts a pass.
C6_EveryPassMakesAllCalls ==
    pc = "exit" => \A g \in Groups : calls[g] = iterations

\* C7: an attempt whose client exits with a non-zero status or cannot be
\* started ends with measure_latency returning None, not raising.
C7_ProcessErrorIsReturned ==
    attempt.outcome \in {"exit_nonzero", "spawn_failure"} =>
        /\ attempt.raised = FALSE
        /\ attempt.ret = None

\* C8: when an attempt times out, at the moment measure_latency returns the
\* child has been killed and is no longer running, the value returned is
\* None, the attempt counts as failed and no latency list changes.
C8_TimeoutKillsAndFails ==
    [][ (i' = i + 1 /\ attempt'.outcome = "timeout") =>
            /\ proc = "running" /\ proc' = "none"
            /\ attempt'.child = "killed"
            /\ attempt'.ret = None
            /\ attempt'.raised = FALSE
            /\ failed'[attempt'.group] = failed[attempt'.group] + 1
            /\ classic_latencies' = classic_latencies
            /\ hybrid_latencies' = hybrid_latencies ]_vars

\* The latest attempt timed out and its child is gone.
C8_Witness ==
    /\ attempt.outcome = "timeout"
    /\ attempt.child = "killed"
    /\ proc = "none"
    /\ failed[attempt.group] > 0

\* C9: every latency measure_latency returns and every value stored in a
\* latency list or in the returned frame is >= 0; a negative measurement is
\* returned as None.
C9_LatenciesNonNegative ==
    /\ NonNegative(classic_latencies)
    /\ NonNegative(hybrid_latencies)
    /\ attempt.ret # None => attempt.ret[1] >= 0
    /\ df # None => NonNegative(df[1].classic_ms) /\ NonNegative(df[1].hybrid_ms)
    /\ (attempt.elapsed # None /\ attempt.elapsed[1] < 0) => attempt.ret = None

\* A successful exit measured a negative time and was returned as None.
C9_Witness ==
    /\ attempt.outcome = "exit0"
    /\ attempt.elapsed # None
    /\ attempt.elapsed[1] < 0
    /\ attempt.ret = None
    /\ failed[attempt.group] > 0

\* C10: a run that ends for want of usable samples after failed attempts
\* surfaces an error that carries the succeeded and failed counts of both
\* passes, and a run whose baseline mean is 0 does not end as a success.
C10_FailureCarriesCounts ==
    /\ (exc # None /\ exc[1].where = "build_df"
            /\ failed[Classic] + failed[Hybrid] > 0) =>
          /\ exit_code = Some(1)
          /\ exc[1].counts = Some(<<Len(classic_latencies), failed[Classic],
                                    Len(hybrid_latencies), failed[Hybrid]>>)
    /\ (df # None /\ Sum(df[1].classic_ms) = 0) => exit_code # Some(0)

\* C11: the analysis of a run that lost samples (a failed attempt in some
\* pass, or latencies dropped by the truncation) carries the loss: a failed
\* count, an attempted count or a loss rate.
C11_PartialRunReportsLoss ==
    (analysis # None
        /\ (failed[Classic] + failed[Hybrid] > 0
               \/ Len(classic_latencies) # Len(hybrid_latencies)))
    => DOMAIN analysis[1]
          \cap {"failed_count", "attempted_count", "loss_rate"} # {}

\* C17: the value a successful attempt returns is its elapsed time and is
\* appended at the end of its own group's list, a failed attempt changes no
\* list, no other step changes a list, and the returned frame holds the
\* first min-length entries of each list in the same order.
C17_ArrivalOrderKept ==
    [][ /\ i' = i + 1 =>
              LET g == attempt'.group
                  r == attempt'.ret
              IN  /\ g = GroupAt(pc)
                  /\ r # None => r = attempt'.elapsed
                  /\ classic_latencies' =
                        IF g = Classic /\ r # None
                        THEN classic_latencies \o r ELSE classic_latencies
                  /\ hybrid_latencies' =
                        IF g = Hybrid /\ r # None
                        THEN hybrid_latencies \o r ELSE hybrid_latencies
        /\ i' # i + 1 =>
              /\ classic_latencies' = classic_latencies
              /\ hybrid_latencies' = hybrid_latencies
        /\ df' # df =>
              LET m == Min(Len(classic_latencies), Len(hybrid_latencies))
              IN  /\ df = None
                  /\ df'[1].classic_ms = [k \in 1..m |-> classic_latencies[k]]
                  /\ df'[1].hybrid_ms = [k \in 1..m |-> hybrid_latencies[k]] ]_vars

\* A frame was cut from a longer baseline list whose first and last entries
\* differ.
C17_Witness ==
    /\ df # None
    /\ Len(classic_latencies) = 3
    /\ Len(hybrid_latencies) = 2
    /\ classic_latencies[1] # classic_latencies[3]
    /\ hybrid_latencies[1] # hybrid_latencies[2]
    /\ failed[Hybrid] = 1

\* C18: the report's banner is "no significant impact" exactly when
\* |delta_percent| < 5; otherwise it is the degradation banner for a
\* positive delta and the improvement banner for a negative one; the
\* improvement banner is shown only for a negative delta.
C18_BannerMatchesDelta ==
    report # None =>
        LET d == analysis[1].delta_percent
            small == d.kind = "finite" /\ d.val > 0 - 500 /\ d.val < 500
            pos == d.kind = "inf" \/ (d.kind = "finite" /\ d.val > 0)
            neg == d.kind = "-inf" \/ (d.kind = "finite" /\ d.val < 0)
        IN  /\ report[1] = "no_significant_impact" <=> small
            /\ (~small /\ pos) => report[1] = "degradation"
            /\ (~small /\ neg) => report[1] = "improvement"
            /\ report[1] = "improvement" => neg

Abs(x) == IF x < 0 THEN 0 - x ELSE x

\* C12: for a frame with positive baseline mean, the two reported means are
\* the arithmetic means of the columns rounded to two decimals,
\* delta_percent is 100 * (hybrid_mean - baseline_mean) / baseline_mean
\* rounded to two decimals, and sample_size is the common length; baseline
\* [10, 12, 11] and hybrid [15, 16, 14] give 11.0, 15.0 and 36.36.
C12_DeltaPercentOfMeans ==
    (analysis # None /\ Sum(df[1].classic_ms) > 0) =>
        LET a == analysis[1]
            c == df[1].classic_ms
            h == df[1].hybrid_ms
            n == Len(c)
        IN  /\ a.sample_size = n /\ Len(h) = n
            /\ 2 * Abs(a.classic_mean_ms * n - 100 * Sum(c)) <= n
            /\ 2 * Abs(a.hybrid_mean_ms * n - 100 * Sum(h)) <= n
            /\ a.delta_percent.kind = "finite"
            /\ 2 * Abs(a.delta_percent.val * Sum(c)
                        - 10000 * (Sum(h) - Sum(c))) <= Sum(c)
            /\ (c = <<10, 12, 11>> /\ h = <<15, 16, 14>>) =>
                  /\ a.classic_mean_ms = 1100
                  /\ a.hybrid_mean_ms = 1500
                  /\ a.delta_percent.val = 3636

\* The frame of the example has been analysed.
C12_Witness ==
    /\ df = Some([classic_ms |-> <<10, 12, 11>>, hybrid_ms |-> <<15, 16, 14>>])
    /\ analysis # None
    /\ analysis[1].delta_percent = Finite(3636)
    /\ analysis[1].sample_size = 3

\* C14: for a table of brake scores in 1..5 over weighted criteria,
\* calculate_cari returns one value per category and each value is a number
\* between 0 and 100.
C14_CariWithinZeroAndHundred ==
    cari_df # None =>
        /\ DOMAIN cari_df[1] = DOMAIN scores
        /\ \A k \in DOMAIN scores :
              /\ cari_df[1][k].kind = "finite"
              /\ cari_df[1][k].val >= 0
              /\ cari_df[1][k].val <= 1000

\* Row a is at most row b on every criterion and lower on at least one.
LowerBrakes(a, b) ==
    /\ \A col \in DOMAIN a : a[col] <= b[col]
    /\ \E col \in DOMAIN a : a[col] < b[col]

\* C15: a category whose brake scores are nowhere higher and somewhere
\* lower than another's gets a strictly greater CARI, after rounding to one
\* decimal.
C15_LowerBrakesRankHigher ==
    cari_df # None =>
        \A a, b \in DOMAIN scores :
            LowerBrakes(scores[a], scores[b]) =>
                /\ cari_df[1][a].kind = "finite"
                /\ cari_df[1][b].kind = "finite"
                /\ cari_df[1][a].val > cari_df[1][b].val

\* Two categories, the first with lower brakes on the least-weighted
\* criterion only, have been scored.
C15_Witness ==
    /\ cari_df # None
    /\ Len(scores) = 2
    /\ Columns(scores) = {"perf_signature", "plan_transition"}
    /\ scores[1].perf_signature + 1 = scores[2].perf_signature
    /\ scores[1].plan_transition = scores[2].plan_transition
    /\ cari_df[1][1].val > cari_df[1][2].val

\* C19: when some category has a positive raw score, every category with
\* the largest raw score of the table gets exactly 100.0, whatever its brake
\* scores.
C19_BestCategoryIsHundred ==
    (cari_df # None
        /\ \E k \in DOMAIN scores : RawScore(scores[k]) > 0) =>
        /\ \E k \in DOMAIN scores : cari_df[1][k] = Finite(1000)
        /\ \A k \in DOMAIN scores :
              (\A j \in DOMAIN scores :
                   RawScore(scores[j]) <= RawScore(scores[k]))
              => cari_df[1][k] = Finite(1000)

\* The best category has brake scores of 4 and still gets 100.0, and the
\* other category's row, 100.0 in a table of its own, gets less here.
C19_Witness ==
    /\ cari_df # None
    /\ Len(scores) = 2
    /\ \A col \in Columns(scores) : scores[1][col] = 4
    /\ cari_df[1][1] = Finite(1000)
    /\ cari_df[1][2].kind = "finite"
    /\ cari_df[1][2].val > 0
    /\ cari_df[1][2].val < 1000
    /\ calculate_cari(<<scores[2]>>)[1] = Finite(1000)

====
